---- MODULE Spec2Model ----
(***************************************************************************)
(* Model of system_design::simulate_production_load and the three Service  *)
(* request handlers of src/src/main.rs.                                    *)
(*                                                                         *)
(* A Rust String is a sequence of one-character strings, so that format!   *)
(* is concatenation and str::contains is a substring search.               *)
(* Option<String> is [some, val]; a handler's return is [tag, val] with    *)
(* tag "String" (a plain String), "Panic" (unwinding), "Ok" or "Err".      *)
(***************************************************************************)
EXTENDS Integers, Sequences, FiniteSets, TLC

VARIABLES requests, design, pc, i, successful, failed, abort_index,
          dispatched, stdout, stderr, reports, calls, reported,
          counts, traces

vars == <<requests, design, pc, i, successful, failed, abort_index,
          dispatched, stdout, stderr, reports, calls, reported,
          counts, traces>>

\* ---------------------------------------------------------------- bounds
\* longest request sequence drawn besides the reference one
MaxLen == 3
\* number of calls of simulate_production_load in one behaviour
MaxCalls == 3

\* ---------------------------------------------------------------- strings
ProcessedPrefix == <<"P","r","o","c","e","s","s","e","d",":"," ">>
FallbackNeedle == <<"F","a","l","l","b","a","c","k">>
FallbackResponse == <<"F","a","l","l","b","a","c","k"," ","r","e","s","p","o","n","s","e">>
NoInputProvided == <<"N","o"," ","i","n","p","u","t"," ","p","r","o","v","i","d","e","d">>
EmptyString == << >>

Req(d) == <<"r","e","q",d>>

None == [some |-> FALSE, val |-> EmptyString]
Some(s) == [some |-> TRUE, val |-> s]

\* str::contains: needle occurs in hay at some offset
Contains(hay, needle) ==
    \E k \in 0..(Len(hay) - Len(needle)) :
        SubSeq(hay, k + 1, k + Len(needle)) = needle

\* format!("Processed: {}", data)
FormatProcessed(data) == ProcessedPrefix \o data

\* ---------------------------------------------------------------- Service
\* variant: an absent input is replaced by the default String, no panic
handle_request_unsafe_default(input) ==
    IF input.some
    THEN [tag |-> "String", val |-> FormatProcessed(input.val)]
    ELSE [tag |-> "String", val |-> FormatProcessed(EmptyString)]

handle_request_unsafe(input) ==
    IF input.some
    THEN [tag |-> "String", val |-> FormatProcessed(input.val)]
    ELSE [tag |-> "Panic", val |-> EmptyString]

\* variant: an absent input is replaced by the default String
handle_request_safe_default(input) ==
    IF input.some
    THEN [tag |-> "Ok", val |-> FormatProcessed(input.val)]
    ELSE [tag |-> "Ok", val |-> FormatProcessed(EmptyString)]

handle_request_safe(input) ==
    IF input.some
    THEN [tag |-> "Ok", val |-> FormatProcessed(input.val)]
    ELSE [tag |-> "Err", val |-> NoInputProvided]

\* variant: an empty payload is treated like an absent one
handle_request_resilient_nonempty(input) ==
    IF input.some /\ input.val # EmptyString
    THEN [tag |-> "String", val |-> FormatProcessed(input.val)]
    ELSE [tag |-> "String", val |-> FallbackResponse]

handle_request_resilient(input) ==
    IF input.some
    THEN [tag |-> "String", val |-> FormatProcessed(input.val)]
    ELSE [tag |-> "String", val |-> FallbackResponse]

\* the eprintln! of the None arm of handle_request_resilient
ResilientNotices(input) == IF input.some THEN 0 ELSE 1

\* variant: the handler is called without a protective boundary
call_unprotected(r) == r

\* std::panic::catch_unwind around the unsafe handler
catch_unwind(r) ==
    IF r.tag = "Panic"
    THEN [tag |-> "Err", val |-> EmptyString]
    ELSE [tag |-> "Ok", val |-> r.val]

\* ---------------------------------------------------------------- inputs
ReferenceRequests ==
    << Some(Req("1")), Some(Req("2")), None, Some(Req("3")),
       Some(Req("4")), None, Some(Req("5")) >>

\* payload strings of the drawn sequences: the empty string, an ordinary
\* one, and one holding the text the resilient branch looks for
PayloadStrings == { EmptyString, Req("1"), FallbackNeedle }
RequestUnits == { None } \cup { Some(s) : s \in PayloadStrings }

SeqsUpTo(S, n) == UNION { [1..k -> S] : k \in 1..n }

Designs == { "unsafe", "safe", "resilient", "chaos" }

\* ---------------------------------------------------------------- report
\* (successful as f64 / len as f64) * 100.0 printed with {:.1}: tenths of
\* a percent, round half to even
\* variant: the ratio is taken in integer arithmetic before the scaling
AvailabilityTruncated(s, n) == 1000 * (s \div n)

AvailabilityTenths(s, n) ==
    LET q == (1000 * s) \div n
        r == (1000 * s) % n
    IN  IF 2 * r > n \/ (2 * r = n /\ q % 2 = 1) THEN q + 1 ELSE q

\* variant: the counter outlives the call
StaleSuccessful == successful

\* let mut successful = 0; let mut failed = 0;
FreshSuccessful == 0
FreshFailed == 0

\* variant: the crashed request is counted among the dropped ones
RemainingDroppedWithCrashed(len, idx) == len - idx

\* "Remaining {} requests dropped."
RemainingDropped(len, idx) == len - idx - 1

\* variant: the crashed request itself is left out of the failed count
FailedOnCrashOffByOne(len, idx) == len - idx - 1

\* failed = requests.len() - i
FailedOnCrash(len, idx) == len - idx

\* the request number printed with SERVICE CRASHED, with a 0-based variant
ZeroBasedRequestNumber(idx) == idx
CrashedRequestNumber(idx) == idx + 1

Line(kind, n) == [kind |-> kind, req |-> n]

\* variant: the vector is walked from its end
RequestAtReversed(reqs, idx) == reqs[Len(reqs) - idx]

\* the element requests.iter().enumerate() yields with index idx
RequestAt(reqs, idx) == reqs[idx + 1]

\* variant: the crash arm does not leave the loop
PcAfterCrashNoBreak == "loop"

\* break: the crash arm leaves the loop
PcAfterCrash == "aborted"

\* the two counters as they stand after an iteration
Counters(s, f) == [successful |-> s, failed |-> f]

\* ---------------------------------------------------------------- machine
Init ==
    /\ requests \in SeqsUpTo(RequestUnits, MaxLen) \cup { ReferenceRequests }
    /\ design = "none"
    /\ pc = "idle"
    /\ i = 0
    /\ successful = 0
    /\ failed = 0
    /\ abort_index = 0
    /\ dispatched = << >>
    /\ stdout = << >>
    /\ stderr = 0
    /\ reports = {}
    /\ calls = 0
    /\ reported = 0
    /\ counts = << >>
    /\ traces = {}

\* main calls simulate_production_load(design): lines 115-132
Call(d) ==
    /\ pc = "idle"
    /\ calls < MaxCalls
    /\ design' = d
    /\ pc' = "loop"
    /\ i' = 0
    /\ successful' = FreshSuccessful
    /\ failed' = FreshFailed
    /\ abort_index' = 0
    /\ dispatched' = << >>
    /\ stdout' = << >>
    /\ stderr' = 0
    /\ calls' = calls + 1
    /\ counts' = << >>
    /\ UNCHANGED <<requests, reports, reported, traces>>

\* one iteration of the loop, "unsafe" arm
IterUnsafe ==
    /\ pc = "loop" /\ design = "unsafe" /\ i < Len(requests)
    /\ LET input == RequestAt(requests, i)
           ret == handle_request_unsafe(input)
           res == catch_unwind(ret)
       IN  /\ dispatched' = Append(dispatched,
                                [idx |-> i + 1, input |-> input, ret |-> ret])
           /\ IF res.tag = "Panic"
              THEN \* a panic nothing catches unwinds out of the function
                   /\ pc' = "unwound"
                   /\ UNCHANGED <<stdout, successful, failed, abort_index,
                                  i, counts>>
              ELSE IF res.tag = "Err"
              THEN /\ stdout' = stdout \o
                        << Line("crashed", CrashedRequestNumber(i)),
                           Line("dropped", RemainingDropped(Len(requests), i)) >>
                   /\ failed' = FailedOnCrash(Len(requests), i)
                   /\ abort_index' = CrashedRequestNumber(i)
                   /\ pc' = PcAfterCrash
                   /\ counts' = Append(counts,
                          Counters(successful, FailedOnCrash(Len(requests), i)))
                   /\ UNCHANGED <<successful, i>>
              ELSE /\ stdout' = Append(stdout, Line("ok", i + 1))
                   /\ successful' = successful + 1
                   /\ i' = i + 1
                   /\ counts' = Append(counts, Counters(successful + 1, failed))
                   /\ UNCHANGED <<failed, abort_index, pc>>
    /\ UNCHANGED <<requests, design, stderr, reports, calls, reported, traces>>

\* one iteration of the loop, "safe" arm
IterSafe ==
    /\ pc = "loop" /\ design = "safe" /\ i < Len(requests)
    /\ LET input == RequestAt(requests, i)
           ret == handle_request_safe(input)
       IN  /\ dispatched' = Append(dispatched,
                                [idx |-> i + 1, input |-> input, ret |-> ret])
           /\ IF ret.tag = "Ok"
              THEN /\ stdout' = Append(stdout, Line("ok", i + 1))
                   /\ successful' = successful + 1
                   /\ counts' = Append(counts, Counters(successful + 1, failed))
                   /\ UNCHANGED failed
              ELSE /\ stdout' = Append(stdout, Line("error", i + 1))
                   /\ failed' = failed + 1
                   /\ counts' = Append(counts, Counters(successful, failed + 1))
                   /\ UNCHANGED successful
    /\ i' = i + 1
    /\ UNCHANGED <<requests, design, pc, abort_index, stderr, reports, calls,
                   reported, traces>>

\* one iteration of the loop, "resilient" arm
IterResilient ==
    /\ pc = "loop" /\ design = "resilient" /\ i < Len(requests)
    /\ LET input == RequestAt(requests, i)
           ret == handle_request_resilient(input)
       IN  /\ dispatched' = Append(dispatched,
                                [idx |-> i + 1, input |-> input, ret |-> ret])
           /\ stderr' = stderr + ResilientNotices(input)
           /\ IF Contains(ret.val, FallbackNeedle)
              THEN /\ stdout' = Append(stdout, Line("degraded", i + 1))
                   /\ failed' = failed + 1
                   /\ counts' = Append(counts, Counters(successful, failed + 1))
                   /\ UNCHANGED successful
              ELSE /\ stdout' = Append(stdout, Line("ok", i + 1))
                   /\ successful' = successful + 1
                   /\ counts' = Append(counts, Counters(successful + 1, failed))
                   /\ UNCHANGED failed
    /\ i' = i + 1
    /\ UNCHANGED <<requests, design, pc, abort_index, reports, calls, reported,
                   traces>>

\* variant: the default arm counts the request as failed
IterOtherCountsFailed ==
    /\ pc = "loop" /\ design \notin {"unsafe", "safe", "resilient"}
    /\ i < Len(requests)
    /\ i' = i + 1
    /\ failed' = failed + 1
    /\ counts' = Append(counts, Counters(successful, failed + 1))
    /\ UNCHANGED <<requests, design, pc, successful, abort_index,
                   dispatched, stdout, stderr, reports, calls, reported,
                   traces>>

\* one iteration of the loop, default arm: _ => {}
IterOther ==
    /\ pc = "loop" /\ design \notin {"unsafe", "safe", "resilient"}
    /\ i < Len(requests)
    /\ i' = i + 1
    /\ counts' = Append(counts, Counters(successful, failed))
    /\ UNCHANGED <<requests, design, pc, successful, failed, abort_index,
                   dispatched, stdout, stderr, reports, calls, reported,
                   traces>>

\* the iterator is exhausted: the for loop ends without a break
LoopExhausted ==
    /\ pc = "loop" /\ i = Len(requests)
    /\ pc' = "completed"
    /\ UNCHANGED <<requests, design, i, successful, failed, abort_index,
                   dispatched, stdout, stderr, reports, calls, reported,
                   counts, traces>>

\* the report the run prints
CurrentReport ==
    [ design |-> design,
      terminal |-> pc,
      successful |-> successful,
      failed |-> failed,
      availability |-> AvailabilityTenths(successful, Len(requests)),
      abort_index |-> abort_index ]

\* lines 176-180: the results are printed and the call returns
Report ==
    /\ pc \in {"completed", "aborted"}
    /\ reports' = reports \cup { CurrentReport }
    /\ reported' = reported + 1
    /\ pc' = "idle"
    /\ traces' = traces \cup { [design |-> design, counts |-> counts] }
    /\ UNCHANGED <<requests, design, i, successful, failed, abort_index,
                   dispatched, stdout, stderr, calls, counts>>

Next ==
    \/ \E d \in Designs : Call(d)
    \/ IterUnsafe
    \/ IterSafe
    \/ IterResilient
    \/ IterOther
    \/ LoopExhausted
    \/ Report

Spec == Init /\ [][Next]_vars

\* ---------------------------------------------------------------- helpers
Policies == { "unsafe", "safe", "resilient" }
Positions == 1..Len(requests)
AbsentPositions == { k \in Positions : ~requests[k].some }
PresentPositions == { k \in Positions : requests[k].some }
\* 1-indexed position of the first absent request, 0 when there is none
FirstAbsent ==
    IF AbsentPositions = {} THEN 0
    ELSE CHOOSE k \in AbsentPositions : \A j \in AbsentPositions : k <= j
Finished == pc \in {"completed", "aborted"}
DispatchedPositions == { dispatched[k].idx : k \in 1..Len(dispatched) }

\* ---------------------------------------------------------------- C1
\* C1: for each of the three policies, when the run ends (completed or
\* aborted) successful + failed equals the length of the sequence, also in
\* the report, and also when requests follow an Unsafe abort.
C1_Accounted ==
    /\ (Finished /\ design \in Policies) =>
            successful + failed = Len(requests)
    /\ \A r \in reports :
            r.design \in Policies => r.successful + r.failed = Len(requests)

\* an Unsafe run aborted with requests still following the abort
C1_Witness ==
    /\ pc = "aborted" /\ design = "unsafe"
    /\ abort_index < Len(requests)
    /\ successful + failed = Len(requests)

\* ---------------------------------------------------------------- C2
\* C2: an Unsafe run over a sequence whose first absent request is at
\* position p ends with successful = p-1, failed = length-p+1 and
\* abort_index = p.
C2_UnsafeReport ==
    /\ (Finished /\ design = "unsafe" /\ FirstAbsent # 0) =>
            /\ pc = "aborted"
            /\ successful = FirstAbsent - 1
            /\ failed = Len(requests) - FirstAbsent + 1
            /\ abort_index = FirstAbsent
    /\ \A r \in reports :
            (r.design = "unsafe" /\ FirstAbsent # 0) =>
                /\ r.terminal = "aborted"
                /\ r.successful = FirstAbsent - 1
                /\ r.failed = Len(requests) - FirstAbsent + 1
                /\ r.abort_index = FirstAbsent

\* the single absent request: successful=0, failed=1, abort_index=1
C2_Witness ==
    /\ requests = << None >>
    /\ [ design |-> "unsafe", terminal |-> "aborted", successful |-> 0,
         failed |-> 1, availability |-> 0, abort_index |-> 1 ] \in reports

\* ---------------------------------------------------------------- C3
\* C3: a Safe run never aborts; it dispatches every request, in order, and
\* completes with failed = number of absent requests and successful =
\* number of present requests.
C3_SafeCompletes ==
    /\ design = "safe" =>
            /\ pc # "aborted"
            /\ abort_index = 0
            /\ Len(dispatched) = i
            /\ \A k \in 1..Len(dispatched) :
                    /\ dispatched[k].idx = k
                    /\ dispatched[k].ret.tag # "Panic"
            /\ pc \in {"completed", "idle"} =>
                    /\ Len(dispatched) = Len(requests)
                    /\ failed = Cardinality(AbsentPositions)
                    /\ successful = Cardinality(PresentPositions)
    /\ \A r \in reports :
            r.design = "safe" =>
                /\ r.terminal = "completed"
                /\ r.failed = Cardinality(AbsentPositions)
                /\ r.successful = Cardinality(PresentPositions)

\* a Safe run completed over a sequence holding absent and present requests
C3_Witness ==
    /\ design = "safe" /\ pc = "completed"
    /\ AbsentPositions # {} /\ PresentPositions # {}
    /\ failed = Cardinality(AbsentPositions)
    /\ Len(dispatched) = Len(requests)

C7_Idempotent ==
    /\ \A r1, r2 \in reports : r1.design = r2.design => r1 = r2
    /\ (pc = "loop" /\ i = 0) =>
            successful = 0 /\ failed = 0 /\ dispatched = << >>

\* three runs have reported, two of them under the same policy, and that
\* policy counted something
C7_Witness ==
    /\ reported = 3 /\ Cardinality(reports) = 2 /\ pc = "idle"
    /\ \E r \in reports : r.design \in Policies /\ r.successful > 0

\* ---------------------------------------------------------------- C8
\* C8: the reported availability is successful divided by the length of
\* the original sequence, times 100 (to the printed tenth), also when an
\* Unsafe run aborts early.
C8_Availability ==
    \A r \in reports :
        LET d == r.availability * Len(requests) - 1000 * r.successful
        IN  /\ 2 * d <= Len(requests)
            /\ 2 * (0 - d) <= Len(requests)

\* an Unsafe run that aborted after at least one success: the ratio over
\* the requests dispatched before the abort would be 100 percent
C8_Witness ==
    \E r \in reports :
        /\ r.design = "unsafe" /\ r.terminal = "aborted"
        /\ r.successful > 0
        /\ r.successful = r.abort_index - 1
        /\ r.availability < 1000

\* ---------------------------------------------------------------- C9
\* C9: an abort index is set only by an Unsafe run that met an absent
\* request, and is then the position of the first absent request; it is
\* unset for Safe, Resilient and Unsafe runs without an absent request.
C9_AbortIndex ==
    /\ \A r \in reports :
            /\ r.abort_index # 0 <=> (r.design = "unsafe" /\ FirstAbsent # 0)
            /\ r.abort_index # 0 => r.abort_index = FirstAbsent
    /\ abort_index # 0 =>
            design = "unsafe" /\ FirstAbsent # 0 /\ abort_index = FirstAbsent

\* an Unsafe run reported the abort at the very first request
C9_Witness ==
    \E r \in reports :
        r.design = "unsafe" /\ r.abort_index = 1 /\ FirstAbsent = 1

\* ---------------------------------------------------------------- C10
\* C10: under each policy a present but empty payload is handled as
\* present: it yields the processed text, no panic, no error value and no
\* fallback, it is counted as successful and does not abort the run.
C10_EmptyIsPresent ==
    /\ \A k \in 1..Len(dispatched) :
          LET n == dispatched[k].idx IN
            (requests[n].some /\ requests[n].val = EmptyString) =>
                /\ dispatched[k].ret.tag \in {"String", "Ok"}
                /\ dispatched[k].ret.val = ProcessedPrefix
                /\ abort_index # n
                /\ \E j \in 1..Len(stdout) :
                        stdout[j] = Line("ok", n)
                /\ \A j \in 1..Len(stdout) :
                        (stdout[j].kind # "dropped" /\ stdout[j].req = n) =>
                            stdout[j].kind = "ok"
    /\ (Finished /\ design \in Policies
           /\ \A n \in Positions : requests[n] = Some(EmptyString)) =>
            successful = Len(requests) /\ failed = 0

\* a Resilient run completed over empty payloads only
C10_Witness ==
    /\ design = "resilient" /\ pc = "completed"
    /\ Len(requests) >= 2
    /\ \A n \in Positions : requests[n] = Some(EmptyString)
    /\ successful = Len(requests)

\* ---------------------------------------------------------------- C11
\* C11: in an Unsafe run, once the fatal condition has been observed the
\* run is aborted for the rest of the call: no step of the call dispatches
\* a further request or changes successful or failed.
C11_AbortedStays ==
    [][ (design = "unsafe" /\ abort_index # 0 /\ calls' = calls) =>
            /\ pc \in {"aborted", "idle"}
            /\ pc' \in {"aborted", "idle"}
            /\ dispatched' = dispatched
            /\ successful' = successful
            /\ failed' = failed ]_vars

\* an Unsafe call returned after an abort that left requests undispatched
C11_Witness ==
    /\ pc = "idle" /\ design = "unsafe"
    /\ abort_index # 0 /\ abort_index < Len(requests)
    /\ Len(dispatched) = abort_index

\* ---------------------------------------------------------------- C12
\* C12: requests are dispatched strictly in input order, one at a time:
\* the k-th dispatch of a run is the k-th element of the sequence, no
\* element is dispatched twice, and an Unsafe abort never skips ahead to a
\* later present request.
C12_InOrder ==
    /\ Len(dispatched) <= Len(requests)
    /\ \A k \in 1..Len(dispatched) :
            /\ dispatched[k].idx = k
            /\ dispatched[k].input = requests[k]
    /\ (design = "unsafe" /\ FirstAbsent # 0) =>
            \A k \in 1..Len(dispatched) : dispatched[k].idx <= FirstAbsent

\* an Unsafe run aborted at its second or later request with a present
\* request behind the absent one
C12_Witness ==
    /\ pc = "aborted" /\ design = "unsafe"
    /\ Len(dispatched) = FirstAbsent /\ FirstAbsent >= 2
    /\ \E k \in Positions : k > FirstAbsent /\ requests[k].some

\* ---------------------------------------------------------------- C13
\* C13: the panic of the Unsafe handler on an absent input is caught at the
\* per-request boundary: it never unwinds out of the run, it leaves the
\* counts recorded for the requests before it unchanged, and the call
\* still returns with its report.
C13_PanicContained ==
    /\ pc # "unwound"
    /\ \A k \in 1..Len(dispatched) :
          dispatched[k].ret.tag = "Panic" =>
            /\ design = "unsafe"
            /\ pc \in {"aborted", "idle"}
            /\ abort_index = dispatched[k].idx
            /\ Len(counts) = k
            /\ successful = k - 1
            /\ counts[k].successful = IF k = 1 THEN 0 ELSE counts[k - 1].successful
            /\ pc = "idle" =>
                 \E r \in reports :
                    /\ r.design = "unsafe"
                    /\ r.abort_index = dispatched[k].idx
                    /\ r.successful = k - 1
    /\ pc = "idle" => reported = calls

\* an Unsafe call returned with its report after a panic that followed at
\* least one success
C13_Witness ==
    /\ pc = "idle" /\ design = "unsafe" /\ reported = calls
    /\ dispatched # << >>
    /\ dispatched[Len(dispatched)].ret.tag = "Panic"
    /\ successful > 0

\* ---------------------------------------------------------------- C14
\* the steps of a call that has started: the function runs to its return
\* without waiting on anything
RunStep ==
    IterUnsafe \/ IterSafe \/ IterResilient \/ IterOther \/ LoopExhausted \/ Report

LiveSpec == Init /\ [][Next]_vars /\ WF_vars(RunStep)

\* C14: every call eventually reaches exactly one terminal state and
\* produces exactly one report; Safe and Resilient runs end completed, and
\* aborted is reached only by an Unsafe run over a sequence holding an
\* absent request.
C14_OneTerminalOneReport ==
    /\ [] ( /\ reported = IF pc = "idle" THEN calls ELSE calls - 1
            /\ pc = "aborted" => (design = "unsafe" /\ AbsentPositions # {})
            /\ (pc = "completed" /\ design = "unsafe") => AbsentPositions = {}
            /\ \A r \in reports :
                  /\ r.terminal \in {"completed", "aborted"}
                  /\ r.design \in {"safe", "resilient"} => r.terminal = "completed"
                  /\ r.terminal = "aborted" =>
                        (r.design = "unsafe" /\ AbsentPositions # {}) )
    /\ [][ /\ pc = "completed" => pc' \in {"completed", "idle"}
           /\ pc = "aborted" => pc' \in {"aborted", "idle"}
           /\ reported' # reported =>
                 (reported' = reported + 1 /\ pc \in {"completed", "aborted"}) ]_vars
    /\ \A n \in 1..MaxCalls :
          (calls = n) ~> (pc = "idle" /\ reported = n)

\* two calls have returned, one aborted and one completed
C14_Witness ==
    /\ pc = "idle" /\ reported = calls /\ calls >= 2
    /\ \E r \in reports : r.terminal = "aborted"
    /\ \E r \in reports : r.terminal = "completed" /\ r.design \in {"safe", "resilient"}

\* ---------------------------------------------------------------- C15
\* C15: the Safe and Resilient handlers never panic; the Safe handler
\* returns an error value exactly when the input is absent and the
\* processed payload otherwise; the Resilient handler always returns a
\* payload, the literal fallback exactly when the input is absent; the
\* Unsafe handler panics exactly when the input is absent.
C15_Handlers ==
    \A k \in 1..Len(dispatched) :
        LET arg == dispatched[k].input
            out == dispatched[k].ret
        IN  /\ design = "safe" =>
                /\ out.tag \in {"Ok", "Err"}
                /\ out.tag = "Err" <=> ~arg.some
                /\ arg.some => out.val = ProcessedPrefix \o arg.val
            /\ design = "resilient" =>
                /\ out.tag = "String"
                /\ out.val = FallbackResponse <=> ~arg.some
                /\ arg.some => out.val = ProcessedPrefix \o arg.val
            /\ design = "unsafe" =>
                /\ out.tag \in {"String", "Panic"}
                /\ out.tag = "Panic" <=> ~arg.some
                /\ arg.some => out.val = ProcessedPrefix \o arg.val

\* a Resilient run handled an absent input and a present input whose text
\* is the word the fallback starts with
C15_Witness ==
    /\ design = "resilient"
    /\ \E k \in 1..Len(dispatched) : dispatched[k].input = None
    /\ \E k \in 1..Len(dispatched) : dispatched[k].input = Some(FallbackNeedle)

\* ---------------------------------------------------------------- C16
\* the per-request progress lines of the current run ("Request n: ...")
IsProgressLine(l) == l.kind # "dropped"
ProgressLines == SelectSeq(stdout, IsProgressLine)

\* C16 as stated: the number of per-request progress lines of a run equals
\* the sequence length, for every policy, also in an Unsafe run that aborts.
C16_LinePerRequest ==
    (Finished /\ design \in Policies) =>
        Len(ProgressLines) = Len(requests)

\* C16 amended: a run emits one progress line per dispatched request,
\* numbered in order; a completed run of a policy emits as many as the
\* sequence is long; an Unsafe run aborted at position p emits p of them,
\* followed by one line reporting the length - p remaining requests dropped.
C16_LinePerDispatch ==
    design \in Policies =>
        /\ Len(ProgressLines) = Len(dispatched)
        /\ \A k \in 1..Len(ProgressLines) : ProgressLines[k].req = k
        /\ pc = "completed" =>
              /\ Len(ProgressLines) = Len(requests)
              /\ stdout = ProgressLines
        /\ pc = "aborted" =>
              /\ Len(ProgressLines) = abort_index
              /\ ProgressLines[abort_index].kind = "crashed"
              /\ Len(stdout) = abort_index + 1
              /\ stdout[Len(stdout)] =
                    Line("dropped", Len(requests) - abort_index)

\* an Unsafe run aborted before the end: fewer progress lines than requests
C16_Witness ==
    /\ pc = "aborted" /\ design = "unsafe"
    /\ abort_index < Len(requests)
    /\ Len(ProgressLines) = abort_index
    /\ Len(ProgressLines) < Len(requests)

C18_UnknownDesign ==
    /\ (design \notin Policies /\ design # "none") =>
          /\ dispatched = << >> /\ stdout = << >> /\ stderr = 0
          /\ successful = 0 /\ failed = 0 /\ abort_index = 0
          /\ pc \notin {"aborted", "unwound"}
          /\ Len(counts) = i
          /\ pc = "completed" => i = Len(requests)
    /\ \A r \in reports :
          /\ r.design \notin Policies =>
                /\ r.terminal = "completed"
                /\ r.successful = 0 /\ r.failed = 0 /\ r.availability = 0
          /\ r.successful + r.failed = Len(requests) <=> r.design \in Policies

\* a call with an unrecognised design returned its report over a sequence
\* of several requests
C18_Witness ==
    /\ pc = "idle" /\ design \notin Policies /\ design # "none"
    /\ Len(requests) >= 2 /\ i = Len(requests)
    /\ \E r \in reports : r.design = design /\ r.successful + r.failed = 0

====
